---- MODULE Spec2Model ----
(***************************************************************************)
(* XmlFileSource.tag_iterator (tools/nl_api/custom_sources.py): a scanner  *)
(* that reads a file line by line from a byte offset, claims the offset of *)
(* each line holding the open tag against an offset range tracker and      *)
(* yields the lines up to the next line holding the close tag.             *)
(*                                                                         *)
(* A file is a sequence of bytes (one-character strings); a line is the    *)
(* sequence of bytes readline returns; offsets count bytes from 0.         *)
(*                                                                         *)
(* Two things are decided by the build and not by this code: whether the   *)
(* interpreter implements PEP 479, and whether the tags (str) and the      *)
(* lines the stream returns are of one type.                               *)
(***************************************************************************)
EXTENDS Integers, Sequences, FiniteSets, TLC

VARIABLES
    pep479,       \* the interpreter turns a StopIteration raised in a generator into RuntimeError
    str_in_bytes, \* the tags are str and the lines are bytes: Python 3 over a byte stream
    plan,         \* the scans still to run: records [file, start, stop]
    outs,         \* the finished scans: records [file, start, stop, out, result]
    pc,           \* "idle" | "open" (lines 60-70) | "close" (lines 73-77) |
                  \* "yield" (suspended at line 76) | "done" | "closed"
    file,         \* the bytes of the file opened by open_file
    fopen,        \* the handle of the with block is open
    pos,          \* f.tell()
    current_pos,  \* the local current_pos
    exhausted,    \* the generator _iterable_gcs(f) has finished
    reads,        \* history: the lines f.readline() has returned to this scan
    content,      \* the local content, a list of lines
    out,          \* the records yielded so far by this scan
    result,       \* how the scan ended for its consumer: "none" | "done" |
                  \* "RuntimeError" | "TypeError" | "IOError"
    tracker,      \* the offset range tracker: [start, stop, last]
    ret,          \* what the last try_claim returned: "none" | "true" | "false"
    arg,          \* the offset the last try_claim was given
    claimed,      \* history: the offsets claimed with success on this tracker
    narrowed      \* history: stop_position was narrowed on this tracker

vars == <<pep479, str_in_bytes, plan, outs, pc, file, fopen, pos, current_pos, exhausted,
          reads, content, out, result, tracker, ret, arg, claimed, narrowed>>

---------------------------------------------------------------------------
(* Bounds of the model *)

MaxLines == 3      \* lines of an arbitrary file
MaxItems == 2      \* records and loose text lines of a structured file
MaxInner == 1      \* text lines inside one record of a structured file
MaxOffset == 4     \* offsets of the tracker exercised on its own

---------------------------------------------------------------------------
(* Strings *)

RECURSIVE Flatten(_)
\* the bytes of a sequence of lines
Flatten(ls) == IF ls = <<>> THEN <<>> ELSE Head(ls) \o Flatten(Tail(ls))

\* tag in line for a tag and a line of one type: a plain substring test
Contains(tag, line) ==
    \E i \in 1..(Len(line) - Len(tag) + 1) : SubSeq(line, i, i + Len(tag) - 1) = tag

element == <<"p">>
open_tag == <<"<">> \o element \o <<">">>
close_tag == <<"<", "/">> \o element \o <<">">>

---------------------------------------------------------------------------
(* The stream: seek, readline, tell *)

RECURSIVE LineEnd(_, _)
\* the index of the first newline at or after index i, or the last index of f
LineEnd(f, i) ==
    IF i >= Len(f) THEN Len(f)
    ELSE IF f[i] = "\n" THEN i ELSE LineEnd(f, i + 1)

\* a stream whose readline returns one byte at a time
readlineByte(f, p) == IF p >= Len(f) THEN <<>> ELSE SubSeq(f, p + 1, p + 1)

\* f.readline() with f.tell() = p: the bytes up to and including the next
\* newline, or up to the end of the file; empty at the end of the file
readline(f, p) == IF p >= Len(f) THEN <<>> ELSE SubSeq(f, p + 1, LineEnd(f, p + 1))

\* offset_range_tracker.start_position() or 0
SeekOffset(t) == t.start

---------------------------------------------------------------------------
(* The offset range tracker *)

NoClaim == -1

NewTracker(start, stop) == [start |-> start, stop |-> stop, last |-> NoClaim]

\* a tracker that accepts the position it claimed last once more
CanClaimAgain(t, p) == t.start <= p /\ p < t.stop /\ p >= t.last

\* a tracker that forgets what it has claimed
CanClaimInRange(t, p) == t.start <= p /\ p < t.stop

\* a tracker that does not look at stop_position
CanClaimPastStop(t, p) == t.start <= p /\ p > t.last

\* a tracker that still accepts the position stop_position itself
CanClaimAtStop(t, p) == t.start <= p /\ p <= t.stop /\ p > t.last

\* try_claim(position) succeeds iff position is in [start, stop) and beyond
\* every position claimed before
CanClaim(t, p) == t.start <= p /\ p < t.stop /\ p > t.last

\* try_claim(position): what it returns (ok) and the tracker it leaves (t)
try_claim(t, p) ==
    IF CanClaim(t, p) THEN [ok |-> TRUE, t |-> [t EXCEPT !.last = p]]
    ELSE [ok |-> FALSE, t |-> t]

\* the external agent narrows stop_position to s
narrow(t, s) == [t EXCEPT !.stop = s]

---------------------------------------------------------------------------
(* The scan: XmlFileSource.tag_iterator *)

\* raise StopIteration() in the generator's body: the end of the sequence,
\* or a RuntimeError where the interpreter implements PEP 479
Raised == IF pep479 THEN "RuntimeError" ELSE "done"

\* the line read at this step
Line == readline(file, pos)

\* lines 61, 75: self.open_tag in line, self.close_tag in line. The tag is a
\* str (lines 43-44); where the line is of another type the test raises
\* TypeError
TagIn(tag, line) ==
    IF str_in_bytes THEN "TypeError"
    ELSE IF Contains(tag, line) THEN "True" ELSE "False"

\* a scan that opens the file without a with block and never closes it
FinishLeak(res) ==
    /\ pc' = "done"
    /\ fopen' = fopen
    /\ result' = res
    /\ outs' = Append(outs, [file |-> file, start |-> tracker.start,
                             stop |-> tracker.stop, narrowed |-> narrowed,
                             out |-> out, result |-> res])

\* the scan leaves the with block and ends for its consumer
Finish(res) ==
    /\ pc' = "done"
    /\ fopen' = FALSE
    /\ result' = res
    /\ outs' = Append(outs, [file |-> file, start |-> tracker.start,
                             stop |-> tracker.stop, narrowed |-> narrowed,
                             out |-> out, result |-> res])

\* the position the scanner claims for the line it has just read
ClaimPosition == current_pos

\* line 76: ''.join(content)
Yielded(c) == Flatten(c)

\* lines 50-56: open the file, seek to the start of the range, enter the loop
tag_iterator ==
    /\ pc \in {"idle", "done", "closed"}
    /\ plan # <<>>
    /\ LET job == Head(plan)
           t == NewTracker(job.start, job.stop)
       IN /\ plan' = Tail(plan)
          /\ file' = job.file
          /\ tracker' = t
          /\ pos' = SeekOffset(t)
          /\ current_pos' = SeekOffset(t)
    /\ fopen' = TRUE
    /\ pc' = "open"
    /\ exhausted' = FALSE
    /\ reads' = 0
    /\ content' = <<>>
    /\ out' = <<>>
    /\ result' = "none"
    /\ ret' = "none"
    /\ arg' = NoClaim
    /\ claimed' = <<>>
    /\ narrowed' = FALSE
    /\ UNCHANGED <<pep479, str_in_bytes, outs>>

\* lines 60, 67-70: no line is left while looking for the open tag
FindOpenEnd ==
    /\ pc = "open"
    /\ exhausted \/ Line = <<>>
    /\ exhausted' = TRUE
    /\ Finish(Raised)
    /\ UNCHANGED <<reads, pep479, str_in_bytes, plan, file, pos, current_pos, content, out,
                   tracker, ret, arg, claimed, narrowed>>

\* lines 60-61: the first line read is of another type than the tag, and
\* the test of line 61 raises TypeError, which leaves the with block
FindOpenTypeError ==
    /\ pc = "open"
    /\ ~exhausted /\ Line # <<>>
    /\ TagIn(open_tag, Line) = "TypeError"
    /\ pos' = pos + Len(Line)
    /\ reads' = reads + 1
    /\ Finish("TypeError")
    /\ UNCHANGED <<pep479, str_in_bytes, plan, file, current_pos, exhausted,
                   content, out, tracker, ret, arg, claimed, narrowed>>

\* a scanner that does not refresh current_pos after a line without the tag
FindOpenSkipStale ==
    /\ pc = "open"
    /\ ~exhausted /\ Line # <<>>
    /\ TagIn(open_tag, Line) = "False"
    /\ pos' = pos + Len(Line)
    /\ reads' = reads + 1
    /\ UNCHANGED <<pep479, str_in_bytes, plan, outs, pc, file, fopen, current_pos, exhausted,
                   content, out, result, tracker, ret, arg, claimed, narrowed>>

\* lines 60-61, 66: a line without the open tag
FindOpenSkip ==
    /\ pc = "open"
    /\ ~exhausted /\ Line # <<>>
    /\ TagIn(open_tag, Line) = "False"
    /\ pos' = pos + Len(Line)
    /\ reads' = reads + 1
    /\ current_pos' = pos'
    /\ UNCHANGED <<pep479, str_in_bytes, plan, outs, pc, file, fopen, exhausted, content,
                   out, result, tracker, ret, arg, claimed, narrowed>>

\* a scanner that goes on to the next line when try_claim returns False
FindOpenRefusedGoesOn ==
    /\ pc = "open"
    /\ ~exhausted /\ Line # <<>>
    /\ TagIn(open_tag, Line) = "True"
    /\ ~try_claim(tracker, ClaimPosition).ok
    /\ pos' = pos + Len(Line)
    /\ reads' = reads + 1
    /\ current_pos' = pos'
    /\ tracker' = try_claim(tracker, ClaimPosition).t
    /\ ret' = "false"
    /\ arg' = ClaimPosition
    /\ UNCHANGED <<pep479, str_in_bytes, plan, outs, pc, file, fopen, exhausted, content,
                   out, result, claimed, narrowed>>

\* a scanner that reads one more line after try_claim returns False
FindOpenRefusedReadsOn ==
    /\ pc = "open"
    /\ ~exhausted /\ Line # <<>>
    /\ TagIn(open_tag, Line) = "True"
    /\ ~try_claim(tracker, ClaimPosition).ok
    /\ pos' = pos + Len(Line) + Len(readline(file, pos + Len(Line)))
    /\ reads' = reads + 2
    /\ tracker' = try_claim(tracker, ClaimPosition).t
    /\ ret' = "false"
    /\ arg' = ClaimPosition
    /\ Finish(Raised)
    /\ UNCHANGED <<pep479, str_in_bytes, plan, file, current_pos, exhausted, content, out,
                   claimed, narrowed>>

\* lines 60-63: a line with the open tag, and try_claim returns False
FindOpenRefused ==
    /\ pc = "open"
    /\ ~exhausted /\ Line # <<>>
    /\ TagIn(open_tag, Line) = "True"
    /\ ~try_claim(tracker, ClaimPosition).ok
    /\ pos' = pos + Len(Line)
    /\ reads' = reads + 1
    /\ tracker' = try_claim(tracker, ClaimPosition).t
    /\ ret' = "false"
    /\ arg' = ClaimPosition
    /\ Finish(Raised)
    /\ UNCHANGED <<pep479, str_in_bytes, plan, file, current_pos, exhausted, content, out,
                   claimed, narrowed>>

\* a scanner that also looks for the close tag in the line it has claimed
FindOpenClaimedClosing ==
    /\ pc = "open"
    /\ ~exhausted /\ Line # <<>>
    /\ TagIn(open_tag, Line) = "True"
    /\ try_claim(tracker, ClaimPosition).ok
    /\ pos' = pos + Len(Line)
    /\ reads' = reads + 1
    /\ tracker' = try_claim(tracker, ClaimPosition).t
    /\ ret' = "true"
    /\ arg' = ClaimPosition
    /\ claimed' = Append(claimed, ClaimPosition)
    /\ content' = <<Line>>
    /\ IF TagIn(close_tag, Line) = "True"
       THEN /\ out' = Append(out, Yielded(content'))
            /\ pc' = "yield"
       ELSE /\ pc' = "close"
            /\ UNCHANGED out
    /\ UNCHANGED <<pep479, str_in_bytes, plan, outs, file, fopen, current_pos,
                   exhausted, result, narrowed>>

\* a scanner that appends the claimed line to the lines collected before
FindOpenClaimedKeeps ==
    /\ pc = "open"
    /\ ~exhausted /\ Line # <<>>
    /\ TagIn(open_tag, Line) = "True"
    /\ try_claim(tracker, ClaimPosition).ok
    /\ pos' = pos + Len(Line)
    /\ reads' = reads + 1
    /\ tracker' = try_claim(tracker, ClaimPosition).t
    /\ ret' = "true"
    /\ arg' = ClaimPosition
    /\ claimed' = Append(claimed, ClaimPosition)
    /\ content' = Append(content, Line)
    /\ pc' = "close"
    /\ UNCHANGED <<pep479, str_in_bytes, plan, outs, file, fopen, current_pos, exhausted,
                   out, result, narrowed>>

\* lines 60-65: a line with the open tag, and try_claim returns True
FindOpenClaimed ==
    /\ pc = "open"
    /\ ~exhausted /\ Line # <<>>
    /\ TagIn(open_tag, Line) = "True"
    /\ try_claim(tracker, ClaimPosition).ok
    /\ pos' = pos + Len(Line)
    /\ reads' = reads + 1
    /\ tracker' = try_claim(tracker, ClaimPosition).t
    /\ ret' = "true"
    /\ arg' = ClaimPosition
    /\ claimed' = Append(claimed, ClaimPosition)
    /\ content' = <<Line>>
    /\ pc' = "close"
    /\ UNCHANGED <<pep479, str_in_bytes, plan, outs, file, fopen, current_pos, exhausted,
                   out, result, narrowed>>

\* a scanner that claims the open-tag lines it meets while collecting
CollectAppendClaims ==
    /\ pc = "close"
    /\ Line # <<>>
    /\ TagIn(close_tag, Line) = "False"
    /\ pos' = pos + Len(Line)
    /\ reads' = reads + 1
    /\ content' = Append(content, Line)
    /\ IF TagIn(open_tag, Line) = "True"
       THEN /\ tracker' = try_claim(tracker, pos).t
            /\ ret' = IF try_claim(tracker, pos).ok THEN "true" ELSE "false"
            /\ arg' = pos
            /\ claimed' = IF try_claim(tracker, pos).ok THEN Append(claimed, pos)
                          ELSE claimed
       ELSE UNCHANGED <<tracker, ret, arg, claimed>>
    /\ UNCHANGED <<pep479, str_in_bytes, plan, outs, pc, file, fopen, current_pos, exhausted,
                   out, result, narrowed>>

\* lines 73-75: a line without the close tag is appended
CollectAppend ==
    /\ pc = "close"
    /\ Line # <<>>
    /\ TagIn(close_tag, Line) = "False"
    /\ pos' = pos + Len(Line)
    /\ reads' = reads + 1
    /\ content' = Append(content, Line)
    /\ UNCHANGED <<pep479, str_in_bytes, plan, outs, pc, file, fopen, current_pos, exhausted,
                   out, result, tracker, ret, arg, claimed, narrowed>>

\* a scanner that gives up a record whose close-tag line begins at or after
\* stop_position
CollectYieldChecked ==
    /\ pc = "close"
    /\ Line # <<>>
    /\ TagIn(close_tag, Line) = "True"
    /\ pos' = pos + Len(Line)
    /\ reads' = reads + 1
    /\ content' = Append(content, Line)
    /\ IF pos < tracker.stop
       THEN /\ out' = Append(out, Yielded(content'))
            /\ pc' = "yield"
            /\ UNCHANGED <<outs, fopen, result>>
       ELSE /\ Finish(Raised)
            /\ UNCHANGED out
    /\ UNCHANGED <<pep479, str_in_bytes, plan, file, current_pos, exhausted,
                   tracker, ret, arg, claimed, narrowed>>

\* lines 73-76: a line with the close tag is appended and the record is
\* yielded; the generator is suspended at the yield until its consumer asks
\* for the next record
CollectYield ==
    /\ pc = "close"
    /\ Line # <<>>
    /\ TagIn(close_tag, Line) = "True"
    /\ pos' = pos + Len(Line)
    /\ reads' = reads + 1
    /\ content' = Append(content, Line)
    /\ out' = Append(out, Yielded(content'))
    /\ pc' = "yield"
    /\ UNCHANGED <<pep479, str_in_bytes, plan, outs, file, fopen, current_pos,
                   exhausted, result, tracker, ret, arg, claimed, narrowed>>

\* a scanner that does not refresh current_pos after a yield
ResumeStale ==
    /\ pc = "yield"
    /\ pc' = "open"
    /\ UNCHANGED <<reads, pep479, str_in_bytes, plan, outs, file, fopen, pos,
                   current_pos, exhausted, content, out, result, tracker, ret,
                   arg, claimed, narrowed>>

\* lines 77, 55-56: the consumer asks for the next record; the inner loop is
\* left, the outer loop starts again and current_pos is taken from f.tell()
Resume ==
    /\ pc = "yield"
    /\ current_pos' = pos
    /\ pc' = "open"
    /\ UNCHANGED <<reads, pep479, str_in_bytes, plan, outs, file, fopen, pos,
                   exhausted, content, out, result, tracker, ret, arg, claimed,
                   narrowed>>

\* line 76: the consumer closes the generator it holds suspended at the
\* yield; GeneratorExit leaves the with block and the scan has no result
GeneratorExit ==
    /\ pc = "yield"
    /\ pc' = "closed"
    /\ fopen' = FALSE
    /\ UNCHANGED <<reads, pep479, str_in_bytes, plan, outs, file, pos,
                   current_pos, exhausted, content, out, result, tracker, ret,
                   arg, claimed, narrowed>>

\* lines 73, 55-56: no line is left while collecting; the inner loop ends
\* without a yield and the outer loop starts again on a finished generator
CollectEnd ==
    /\ pc = "close"
    /\ Line = <<>>
    /\ exhausted' = TRUE
    /\ current_pos' = pos
    /\ pc' = "open"
    /\ UNCHANGED <<reads, pep479, str_in_bytes, plan, outs, file, fopen, pos, content, out, result,
                   tracker, ret, arg, claimed, narrowed>>

\* line 28: f.readline() fails; the fault leaves the generator through the
\* with block and reaches the consumer
ReadFault ==
    /\ pc \in {"open", "close"}
    /\ ~exhausted
    /\ Finish("IOError")
    /\ UNCHANGED <<reads, pep479, str_in_bytes, plan, file, pos, current_pos, exhausted,
                   content, out, tracker, ret, arg, claimed, narrowed>>

\* the external agent narrows stop_position while the tracker is in use; the
\* range stays a range, start <= stop
NarrowStop ==
    /\ pc \notin {"done", "closed"}
    /\ \E s \in tracker.start..(tracker.stop - 1) :
          tracker' = narrow(tracker, s)
    /\ narrowed' = TRUE
    /\ UNCHANGED <<reads, pep479, str_in_bytes, plan, outs, pc, file, fopen, pos, current_pos,
                   exhausted, content, out, result, ret, arg, claimed>>

\* a caller of the tracker claims an offset
TryClaim ==
    /\ pc = "idle"
    /\ \E p \in 0..MaxOffset :
          /\ tracker' = try_claim(tracker, p).t
          /\ ret' = IF try_claim(tracker, p).ok THEN "true" ELSE "false"
          /\ arg' = p
          /\ claimed' = IF try_claim(tracker, p).ok THEN Append(claimed, p)
                        ELSE claimed
    /\ UNCHANGED <<reads, pep479, str_in_bytes, plan, outs, pc, file, fopen, pos, current_pos,
                   exhausted, content, out, result, narrowed>>

---------------------------------------------------------------------------
(* Files *)

SeqsUpTo(S, n) == UNION {[1..k -> S] : k \in 0..n}

RECURSIVE Repeat(_, _)
Repeat(l, n) == IF n = 0 THEN <<>> ELSE l \o Repeat(l, n - 1)

NL == <<"\n">>
LOpen == open_tag \o NL
LIndent == <<" ">> \o open_tag \o NL
LText == <<"x">> \o NL
LClose == close_tag \o NL
LSame == open_tag \o close_tag \o NL

\* every file of up to MaxLines of these lines
AnyFiles == {Flatten(ls) : ls \in SeqsUpTo({LIndent, LText, LClose, LSame}, MaxLines)}

\* files made of loose text lines and whole records
Items == {LText} \cup {o \o Repeat(LText, n) \o LClose :
                          o \in {LOpen, LIndent}, n \in 0..MaxInner}
ItemFiles == {Flatten(is) : is \in SeqsUpTo(Items, MaxItems)}

---------------------------------------------------------------------------
(* Specifications *)

Idle ==
    /\ pep479 \in BOOLEAN
    /\ str_in_bytes \in BOOLEAN
    /\ outs = <<>>
    /\ pc = "idle"
    /\ file = <<>>
    /\ fopen = FALSE
    /\ pos = 0
    /\ current_pos = 0
    /\ exhausted = FALSE
    /\ reads = 0
    /\ content = <<>>
    /\ out = <<>>
    /\ result = "none"
    /\ ret = "none"
    /\ arg = NoClaim
    /\ claimed = <<>>
    /\ narrowed = FALSE

Job(f, a, b) == [file |-> f, start |-> a, stop |-> b]

\* one scan of any file over any range, the range being narrowed as it runs
Init ==
    /\ Idle
    /\ tracker = NewTracker(0, 0)
    /\ \E f \in AnyFiles : \E a \in 0..Len(f) : \E b \in a..Len(f) :
          plan = <<Job(f, a, b)>>

Scan ==
    \/ tag_iterator
    \/ FindOpenEnd
    \/ FindOpenTypeError
    \/ FindOpenSkip
    \/ FindOpenRefused
    \/ FindOpenClaimed
    \/ CollectAppend
    \/ CollectYield
    \/ Resume
    \/ CollectEnd

Next == Scan \/ NarrowStop

Spec == Init /\ [][Next]_vars

RECURSIVE LastOpenLineEnd(_, _)
\* the offset just after the line of the last open tag at or before index m
LastOpenLineEnd(f, m) ==
    IF m = 0 THEN 0
    ELSE IF m + Len(open_tag) - 1 <= Len(f)
            /\ SubSeq(f, m, m + Len(open_tag) - 1) = open_tag
         THEN LineEnd(f, m)
         ELSE LastOpenLineEnd(f, m - 1)

\* the prefixes of f that end inside its last record: after the line of the
\* last open tag and before the close tag is complete
Truncations(f) ==
    {SubSeq(f, 1, m) : m \in {n \in 1..Len(f) :
        /\ LastOpenLineEnd(f, Len(f)) \in 1..n
        /\ ~Contains(close_tag, SubSeq(f, LastOpenLineEnd(f, Len(f)) + 1, n))
        /\ Contains(close_tag, SubSeq(f, LastOpenLineEnd(f, Len(f)) + 1, Len(f)))}}

\* scans of ranges that are never narrowed: the two halves of a file split
\* at k, then the whole file; a file, then the same file cut inside its last
\* record
InitJobs ==
    /\ Idle
    /\ tracker = NewTracker(0, 0)
    /\ \E f \in ItemFiles \cup AnyFiles :
          \/ \E k \in 0..Len(f) :
                plan = <<Job(f, 0, k), Job(f, k, Len(f)), Job(f, 0, Len(f))>>
          \/ \E g \in Truncations(f) :
                plan = <<Job(f, 0, Len(f)), Job(g, 0, Len(g))>>

SpecJobs == InitJobs /\ [][Scan]_vars

\* a tracker used on its own: claims of any offset, and narrowing
InitTracker ==
    /\ Idle
    /\ plan = <<>>
    /\ \E a \in 0..MaxOffset : \E b \in a..MaxOffset : tracker = NewTracker(a, b)

NextTracker == TryClaim \/ NarrowStop

SpecTracker == InitTracker /\ [][NextTracker]_vars

\* one scan of any file over any range, with reads that may fail and a
\* consumer that may close the generator before its end
NextFaults == Scan \/ ReadFault \/ GeneratorExit

\* one scan of any file over any range, or two whole-file scans of a
\* structured file, the second begun after the first has ended or was closed
InitFaults ==
    \/ Init
    \/ /\ Idle
       /\ tracker = NewTracker(0, 0)
       /\ \E f \in ItemFiles : plan = <<Job(f, 0, Len(f)), Job(f, 0, Len(f))>>

SpecFaults == InitFaults /\ [][NextFaults]_vars

\* one scan of any file from any start offset to the end of the file; the
\* narrowing of the range as it runs brings every other stop_position
InitPulled ==
    /\ Idle
    /\ tracker = NewTracker(0, 0)
    /\ \E f \in AnyFiles : \E a \in 0..Len(f) :
          plan = <<Job(f, a, Len(f))>>

\* one scan pulled to its end by its consumer: the scanner is never left
\* suspended for ever
SpecPulled == InitPulled /\ [][Next]_vars /\ WF_vars(Scan)

---------------------------------------------------------------------------
(* The line structure of a file, read off its newlines *)

\* the offsets at which a line of f begins
LineStarts(f) == {0} \cup {i \in 1..(Len(f) - 1) : f[i] = "\n"}

\* the offset just after the line that holds offset s
LineStop(f, s) ==
    LET nls == {i \in (s + 1)..Len(f) : f[i] = "\n"}
    IN IF nls = {} THEN Len(f) ELSE CHOOSE i \in nls : \A j \in nls : i <= j

LineAt(f, s) == SubSeq(f, s + 1, LineStop(f, s))
IsOpenLine(f, s) == s \in LineStarts(f) /\ s < Len(f) /\ Contains(open_tag, LineAt(f, s))
IsCloseLine(f, s) == s \in LineStarts(f) /\ s < Len(f) /\ Contains(close_tag, LineAt(f, s))

\* the lines that begin after the line at s and hold the close tag
ClosesAfter(f, s) == {c \in LineStarts(f) : c >= LineStop(f, s) /\ IsCloseLine(f, c)}
FirstCloseAfter(f, s) == CHOOSE c \in ClosesAfter(f, s) : \A d \in ClosesAfter(f, s) : c <= d

\* the text from the line at s through the first later line with the close tag
RecordAt(f, s) == SubSeq(f, s + 1, LineStop(f, FirstCloseAfter(f, s)))

RECURSIVE WellFormedFrom(_, _, _)
\* from the line at s on, open-tag lines and close-tag lines alternate, are
\* different lines, and the last record is closed
WellFormedFrom(f, s, inside) ==
    IF s >= Len(f) THEN ~inside
    ELSE IF inside
         THEN /\ ~IsOpenLine(f, s)
              /\ WellFormedFrom(f, LineStop(f, s), ~IsCloseLine(f, s))
         ELSE /\ ~IsCloseLine(f, s)
              /\ WellFormedFrom(f, LineStop(f, s), IsOpenLine(f, s))
WellFormed(f) == WellFormedFrom(f, 0, FALSE)

RECURSIVE RecordsFrom(_, _, _, _)
\* the records of a well-formed file whose open-tag line begins in [a, b),
\* in file order, looking from offset p on
RecordsFrom(f, p, a, b) ==
    IF p >= Len(f) THEN <<>>
    ELSE (IF IsOpenLine(f, p) /\ a <= p /\ p < b THEN <<RecordAt(f, p)>> ELSE <<>>)
         \o RecordsFrom(f, p + 1, a, b)

Records(f) == RecordsFrom(f, 0, 0, Len(f))

\* the number of times r occurs in the sequence s
Count(r, s) == Cardinality({i \in 1..Len(s) : s[i] = r})
SameBag(s, t) ==
    \A i \in 1..Len(s \o t) : Count((s \o t)[i], s) = Count((s \o t)[i], t)

WholeFile(r) == r.start = 0 /\ r.stop = Len(r.file) /\ ~r.narrowed

---------------------------------------------------------------------------
(* Claims *)

\* C1: a scan of a well-formed file over [0, file_length) yields exactly the
\* file's records, in file order, each the text from its open-tag line
\* through its close-tag line.
C1_FullFile ==
    pc = "done" =>
        \A i \in 1..Len(outs) :
            WellFormed(outs[i].file) /\ WholeFile(outs[i])
                => outs[i].out = Records(outs[i].file)

\* C2: for a well-formed file split at any offset k, the scan of [0, k)
\* followed by the scan of [k, file_length) yields the same multiset of
\* records as the scan of [0, file_length).
C2_SplitEquivalence ==
    Len(outs) = 3
        /\ WellFormed(outs[3].file) /\ WholeFile(outs[3])
        /\ outs[1].file = outs[3].file /\ outs[2].file = outs[3].file
        /\ outs[1].start = 0 /\ outs[1].stop = outs[2].start
        /\ outs[2].stop = Len(outs[3].file)
        => SameBag(outs[1].out \o outs[2].out, outs[3].out)

\* C3: a scan of a well-formed file over a range [start, stop) that is never
\* narrowed yields exactly the records whose open-tag line begins at an
\* offset p with start <= p < stop.
C3_OwnRecordsOnly ==
    \A i \in 1..Len(outs) :
        WellFormed(outs[i].file) /\ ~outs[i].narrowed
            => outs[i].out = RecordsFrom(outs[i].file, 0, outs[i].start, outs[i].stop)

\* C4: once stop_position is at or below the last claimed position, the next
\* try_claim of the scanner returns false, and the scan ends there without
\* a further record.
C4_NarrowedThenRefused ==
    /\ [][arg' # arg /\ tracker.last # NoClaim /\ tracker.stop <= tracker.last
            => ret' = "false" /\ pc' = "done" /\ out' = out
               /\ outs' = Append(outs, outs'[Len(outs')])
               /\ outs'[Len(outs')].out = out]_vars
    /\ [](ret = "false" => pc = "done" /\ outs[Len(outs)].out = out)

\* a record was yielded, the range was narrowed to or below its claim, and
\* the line of the next open tag was refused
C4_Witness ==
    /\ pc = "done" /\ ret = "false" /\ narrowed
    /\ Len(out) = 1 /\ Len(claimed) = 1
    /\ tracker.stop <= tracker.last
    /\ Contains(open_tag, LineAt(file, arg))

\* a step in which try_claim was called (a call that changes nothing at all
\* is a stuttering step)
Called == <<ret, arg, claimed>>' # <<ret, arg, claimed>>

\* C5 as stated: try_claim(position) returns true and records position iff
\* start <= position < stop and position >= every position claimed before;
\* otherwise it returns false and changes nothing.
C5_ClaimContract ==
    [][Called =>
        IF /\ tracker.start <= arg' /\ arg' < tracker.stop
           /\ \A i \in 1..Len(claimed) : arg' >= claimed[i]
        THEN ret' = "true" /\ tracker' = [tracker EXCEPT !.last = arg']
        ELSE ret' = "false" /\ tracker' = tracker]_vars

\* C5 amended: try_claim(position) returns true and records position iff
\* start <= position < stop and position > every position claimed before;
\* otherwise it returns false and changes nothing.
C5_ClaimContractStrict ==
    [][Called =>
        IF /\ tracker.start <= arg' /\ arg' < tracker.stop
           /\ \A i \in 1..Len(claimed) : arg' > claimed[i]
        THEN ret' = "true" /\ tracker' = [tracker EXCEPT !.last = arg']
        ELSE ret' = "false" /\ tracker' = tracker]_vars

\* the position claimed last, still inside the range, was claimed again and
\* refused
C5_Witness ==
    /\ ret = "false" /\ arg = tracker.last
    /\ tracker.start <= arg /\ arg < tracker.stop

\* C6: after a successful claim at p, every later try_claim(q) with q <= p
\* returns false, so no offset is claimed twice.
C6_ClaimOnce ==
    /\ [][Called /\ (\E i \in 1..Len(claimed) : arg' <= claimed[i])
            => ret' = "false" /\ claimed' = claimed /\ tracker' = tracker]_vars
    /\ [](\A i, j \in 1..Len(claimed) : i < j => claimed[i] < claimed[j])

\* two offsets were claimed, then an offset below the last one, inside the
\* range and never claimed, was refused
C6_Witness ==
    /\ ret = "false" /\ Len(claimed) = 2
    /\ tracker.start <= arg /\ arg < claimed[2] /\ arg # claimed[1]
    /\ claimed[2] < tracker.stop

\* a step of a tracker in use (not the construction of a new tracker)
Tracking == pc \notin {"idle", "done"} \/ plan = <<>>

\* C7 as stated: once a claim has succeeded, start <= last claimed < stop in
\* every state, however claims and narrowing interleave; and stop_position
\* never increases.
C7_RangeInvariant ==
    /\ [](tracker.last # NoClaim
            => tracker.start <= tracker.last /\ tracker.last < tracker.stop)
    /\ [][Tracking => tracker'.stop <= tracker.stop]_vars

\* C7 amended: once a claim has succeeded, start <= last claimed in every
\* state; last claimed < stop holds when a claim succeeds and stops holding
\* only by a step that narrows stop_position to or below the last claimed
\* position; and stop_position never increases.
C7_RangeInvariantNarrowed ==
    /\ [](tracker.last # NoClaim => tracker.start <= tracker.last)
    /\ [][Tracking /\ ret' = "true" /\ Called
            => tracker'.last = arg' /\ arg' < tracker'.stop]_vars
    /\ [][Tracking /\ tracker'.last # NoClaim /\ tracker'.last >= tracker'.stop
            => \/ tracker.last # NoClaim /\ tracker.last >= tracker.stop
               \/ tracker'.last = tracker.last /\ tracker'.stop < tracker.stop]_vars
    /\ [][Tracking => tracker'.stop <= tracker.stop]_vars

\* while a claimed record is collected, stop_position is narrowed to or below
\* its claim
C7_Witness ==
    /\ pc = "close" /\ narrowed /\ tracker.last # NoClaim
    /\ tracker.start <= tracker.last /\ tracker.stop <= tracker.last

\* C8: a file cut inside its last record, scanned as far as the claim of
\* that record, yields the records of the whole file but the last, and the
\* scan ends without an error.
C8_TruncationDrop ==
    Len(outs) >= 2
        /\ WellFormed(outs[1].file) /\ WholeFile(outs[1]) /\ WholeFile(outs[2])
        /\ outs[2].file \in Truncations(outs[1].file)
        /\ outs[2].result # "TypeError"
        => /\ Len(outs[2].out) = Len(outs[1].out) - 1
           /\ outs[2].out = SubSeq(outs[1].out, 1, Len(outs[1].out) - 1)
           /\ outs[2].result = "done"

\* C9: a record whose claimed line also holds the close tag is not yielded
\* at that line: it is collected up to the first later line with the close
\* tag and yielded there, or never yielded when the file has no such line.
C9_SameLine ==
    \A i \in 1..Len(claimed) :
        Contains(close_tag, LineAt(file, claimed[i])) =>
            IF i <= Len(out)
            THEN /\ ClosesAfter(file, claimed[i]) # {}
                 /\ out[i] = RecordAt(file, claimed[i])
            ELSE /\ i = Len(claimed)
                 /\ \/ pc = "close" /\ content[1] = LineAt(file, claimed[i])
                    \/ exhausted /\ ClosesAfter(file, claimed[i]) = {}

\* a record opened and closed on one line was yielded at a later close tag
C9_Witness ==
    /\ Len(out) = 1
    /\ Contains(close_tag, LineAt(file, claimed[1]))
    /\ out[1] = LSame \o LText \o LClose

\* C10: a scan that ends at a refused claim or at the end of the input ends
\* as an ordinary end of the sequence, never as an error.
C10_CleanEnd == pc = "done" /\ (ret = "false" \/ exhausted) => result = "done"

\* C11: once try_claim has returned false the scan is over: the scanner has
\* read exactly the line it asked for and nothing after it, the file is
\* released, the records yielded so far are the scan's whole result, and no
\* step of the scanner (no read, no try_claim, no yield) is possible any more.
C11_RefusedIsLast ==
    ret = "false" =>
        /\ pc = "done"
        /\ ~ENABLED Scan
        /\ pos = LineStop(file, arg)
        /\ arg \notin {claimed[i] : i \in 1..Len(claimed)}
        /\ outs[Len(outs)].out = out

\* a claim was refused after two reads while the file still had a line left
C11_Witness ==
    /\ ret = "false"
    /\ pc = "done"
    /\ reads = 2
    /\ pos < Len(file)

\* C12: at every try_claim of the scanner the offset passed is the cursor
\* position from just before the open-tag line was read (right after the
\* close-tag line of the record before it when that record was just yielded),
\* and the read of that one line is all that separates the cursor from it:
\* the cursor ends at the end of the claimed line.
C12_ClaimedLineOnly ==
    [][pc = "open" /\ Called =>
           /\ arg' = pos
           /\ pos' = LineStop(file, pos)
           /\ reads' = reads + 1
           /\ Contains(open_tag, SubSeq(file, pos + 1, pos'))]_vars

\* a second claim was made right after the first record, at the offset just
\* after its close-tag line, with the cursor at the end of the claimed line
C12_Witness ==
    /\ Len(claimed) = 2
    /\ Len(out) = 1
    /\ arg = claimed[1] + Len(out[1])
    /\ pos = LineStop(file, arg)
    /\ pc = "close"

\* C13: try_claim and the narrowing of stop_position are steps of their own
\* that never overlap: a try_claim of the scanner that succeeds does so at a
\* position below the stop_position in force at that step, and leaves
\* stop_position as it is; a narrowing lowers stop_position and is no part of
\* any claim. So no claim succeeds at or beyond a stop_position narrowed
\* before it.
C13_AtomicClaim ==
    /\ [][pc = "open" /\ Called /\ ret' = "true" =>
              /\ arg' < tracker.stop
              /\ tracker'.stop = tracker.stop
              /\ tracker'.last = arg']_vars
    /\ [][pc # "idle" /\ tracker'.stop # tracker.stop =>
              /\ tracker'.stop < tracker.stop
              /\ tracker'.last = tracker.last
              /\ UNCHANGED <<ret, arg, claimed>>]_vars

\* a claim succeeded below stop_position, stop_position was narrowed, and
\* the claim of a position at or beyond the narrowed stop_position, above the
\* last claim, was refused
C13_Witness ==
    /\ narrowed /\ ret = "false"
    /\ Len(claimed) = 1
    /\ claimed[1] < tracker.stop
    /\ tracker.stop <= arg

\* C14: after a successful try_claim the scanner completes that record and
\* does not ask the tracker again on the way: while it collects, the tracker
\* changes by narrowing alone, and every claimed line that has a later line
\* with the close tag is either yielded as the text through the first such
\* line or still being collected, wherever stop_position is or has moved to.
C14_ClaimedIsFinished ==
    /\ [][pc = "close" =>
              /\ tracker'.last = tracker.last
              /\ UNCHANGED <<ret, arg, claimed>>]_vars
    /\ [](\A i \in 1..Len(claimed) :
              ClosesAfter(file, claimed[i]) # {} =>
                  IF i <= Len(out)
                  THEN out[i] = RecordAt(file, claimed[i])
                  ELSE i = Len(claimed) /\ pc = "close")

\* a record was yielded although every line of it after the claimed one lies
\* at or beyond a stop_position that never moved
C14_Witness ==
    /\ pc = "done" /\ ~narrowed
    /\ Len(out) = 1
    /\ tracker.stop <= LineStop(file, claimed[1])
    /\ Len(out[1]) > LineStop(file, claimed[1]) - claimed[1]

\* the number of lines of f after offset s, the rest of a line begun before s
\* and an unterminated last line included
LinesAfter(f, s) ==
    Cardinality({i \in (s + 1)..Len(f) : f[i] = "\n"})
        + (IF s < Len(f) /\ f[Len(f)] # "\n" THEN 1 ELSE 0)

\* an iteration of one of the scanner's two for loops that does not end the
\* scan (the end of the input ends a loop without an iteration)
LoopStep ==
    /\ pc \in {"open", "close"}
    /\ pc' # "done"
    /\ ~exhausted'
    /\ <<pc, pos, content, out, ret, arg>>' # <<pc, pos, content, out, ret, arg>>

\* C15: a scan that is pulled to its end terminates, whatever the file, the
\* start offset and the tracker do: every step of either loop consumes one
\* non-empty line, the lines consumed never outnumber the lines after the
\* start offset, the records yielded never outnumber half the lines consumed,
\* and the scan reaches its terminal state.
C15_Terminates ==
    /\ <>(pc = "done")
    /\ [][LoopStep => reads' = reads + 1 /\ pos' > pos]_vars
    /\ [](pc # "idle" => reads <= LinesAfter(file, SeekOffset(tracker)))
    /\ [](2 * Len(out) <= reads)

\* a scan ended after consuming every one of the three lines of its range
\* and yielding a record
C15_Witness ==
    /\ pc = "done"
    /\ reads = 3
    /\ reads = LinesAfter(file, SeekOffset(tracker))
    /\ Len(out) = 1

\* C16: the file opened at the start of a scan is released on every way out
\* of it: in no terminal state is it open, whether the scan ended at the end
\* of the input while looking for an open tag or for a close tag, at a
\* refused claim, at a read that failed, or at any other error raised in
\* the scan or thrown into it by its consumer; and it is open only while the
\* scan is under way or suspended at a yield.
C16_Released ==
    /\ pc \in {"done", "closed"} => ~fopen
    /\ fopen => pc \in {"open", "close", "yield"}
    /\ pc = "done" =>
          /\ outs[Len(outs)].result = result
          /\ result \in {"done", "RuntimeError", "TypeError", "IOError"}

\* a read failed while a claimed record was being collected, and the file
\* was released
C16_Witness ==
    /\ pc = "done" /\ ~fopen
    /\ result = "IOError"
    /\ Len(claimed) = Len(out) + 1
    /\ reads = 2
    /\ ~exhausted

\* the offset in text r at which its last line begins
LastLineStart(r) == CHOOSE s \in LineStarts(r) : \A t \in LineStarts(r) : t <= s

\* the shape of a record r yielded for the claim at offset s of file f: at
\* least two lines, the first being the claimed line and holding the open
\* tag, the last holding the close tag, none between them holding it, and
\* the whole being the text of f from s on
RecordShape(f, s, r) ==
    /\ Cardinality(LineStarts(r)) >= 2
    /\ r[Len(r)] = "\n" \/ s + Len(r) = Len(f)
    /\ LineAt(r, 0) = LineAt(f, s)
    /\ Contains(open_tag, LineAt(r, 0))
    /\ Contains(close_tag, LineAt(r, LastLineStart(r)))
    /\ \A t \in LineStarts(r) \ {0, LastLineStart(r)} :
           ~Contains(close_tag, LineAt(r, t))
    /\ r = SubSeq(f, s + 1, s + Len(r))

\* C17: on every input, well formed or not, each yielded record begins with
\* its claimed line, which holds the open tag, ends with a line that holds
\* the close tag, has no line with the close tag strictly between the two,
\* and shares no line with a record yielded before it: it begins at or after
\* the end of the one before.
C17_RecordShape ==
    /\ Len(out) <= Len(claimed)
    /\ \A i \in 1..Len(out) :
           /\ RecordShape(file, claimed[i], out[i])
           /\ i > 1 => claimed[i] >= claimed[i - 1] + Len(out[i - 1])

\* two records were yielded by one scan, the second claimed right after the
\* close-tag line of the first
C17_Witness ==
    /\ Len(out) = 2
    /\ claimed[2] = claimed[1] + Len(out[1])
    /\ out[2] # out[1]

\* the input ended while the record of the last claim was being collected:
\* no line after the claimed one holds the close tag
Dropped ==
    /\ exhausted
    /\ claimed # <<>>
    /\ ClosesAfter(file, claimed[Len(claimed)]) = {}

\* C18: within one scan every offset passed to try_claim is greater than the
\* one passed before it, and the successful claims c and the yielded records
\* r satisfy r <= c <= r + 1, with c = r + 1 exactly while a record is being
\* collected or after the input ended on a record being collected.
C18_ClaimsAndYields ==
    /\ [][pc = "open" /\ Called => arg' > arg]_vars
    /\ [](\A i \in 2..Len(claimed) : claimed[i] > claimed[i - 1])
    /\ [](Len(out) <= Len(claimed) /\ Len(claimed) <= Len(out) + 1)
    /\ [](Len(claimed) = Len(out) + 1 <=> pc = "close" \/ Dropped)

\* a scan claimed two offsets in increasing order, yielded the first record
\* and lost the second at the end of the input
C18_Witness ==
    /\ pc = "done"
    /\ Len(claimed) = 2 /\ Len(out) = 1
    /\ arg = claimed[2] /\ claimed[2] > claimed[1]
    /\ Dropped

\* the open-tag lines of f that begin strictly inside the text of length n
\* yielded for the claim at offset s
OpensInside(f, s, n) == {t \in LineStarts(f) : s < t /\ t < s + n /\ IsOpenLine(f, t)}

\* C19: while it looks for the close tag the scanner never calls try_claim:
\* a line with the open tag read then is appended like any other line, so
\* where a second open tag comes before the first close tag, the offset of
\* the second open-tag line is never passed to the tracker by this scan and
\* that line is part of the first record.
C19_NoClaimInside ==
    /\ [][pc = "close" /\ pos' # pos =>
              /\ UNCHANGED <<ret, arg, claimed, tracker>>
              /\ content' = Append(content, SubSeq(file, pos + 1, pos'))]_vars
    /\ [](\A i \in 1..Len(out) :
              /\ out[i] = SubSeq(file, claimed[i] + 1, claimed[i] + Len(out[i]))
              /\ \A t \in OpensInside(file, claimed[i], Len(out[i])) :
                     /\ t # arg
                     /\ \A j \in 1..Len(claimed) : claimed[j] # t)

\* a record with a second open-tag line before its close-tag line was
\* yielded whole on the single claim of its first line
C19_Witness ==
    /\ Len(out) = 1
    /\ claimed = <<0>>
    /\ out[1] = LIndent \o LIndent \o LClose
    /\ OpensInside(file, 0, Len(out[1])) = {Len(LIndent)}

====
